---- MODULE Spec2Model ----
(***************************************************************************)
(* Model of the market-data engine of main.py: the two cached fetch        *)
(* functions get_daily_data / get_macro_data, the metrics loop that builds *)
(* data_summary, the CPI year-over-year section, the unemployment section  *)
(* and the construction of final_prompt.                                   *)
(*                                                                         *)
(* Representation of Python values:                                        *)
(*   float      a one-element tuple <<x>>, NaN is the empty tuple <<>>.    *)
(*              Prices are integers; percentages are kept in hundredths of *)
(*              a percent (the resolution of the ":.2f" formats).          *)
(*   None       the field none = TRUE of a result record.                  *)
(*   DataFrame  a sequence of rows.                                        *)
(***************************************************************************)
EXTENDS Integers, Sequences, FiniteSets, TLC

VARIABLES now, dailyCache, macroCache, op, pc, idx, data_summary, warnings,
          charts, raised, final_prompt

vars == <<now, dailyCache, macroCache, op, pc, idx, data_summary, warnings,
          charts, raised, final_prompt>>

passVars == <<pc, idx, data_summary, warnings, charts, raised, final_prompt>>

----------------------------------------------------------------------------
(* Program constants *)

DailyTtl == 3600
MacroTtl == 86400
YoYLag == 12
VixDivisor == 16
SparkTail == 90
Cutoff == 20000101

TNX == "^TNX"
DGS10 == "DGS10"
CPIAUCSL == "CPIAUCSL"
UNRATE == "UNRATE"
VixName == "VIX"

metrics == <<
  [name |-> "US10Y",  ticker |-> "^TNX",  suffix |-> "%"],
  [name |-> "KRWUSD", ticker |-> "KRW=X", suffix |-> "won"],
  [name |-> "VIX",    ticker |-> "^VIX",  suffix |-> ""],
  [name |-> "NASDAQ", ticker |-> "^IXIC", suffix |-> ""],
  [name |-> "SP500",  ticker |-> "^GSPC", suffix |-> ""],
  [name |-> "NIKKEI", ticker |-> "^N225", suffix |-> ""],
  [name |-> "EEM",    ticker |-> "EEM",   suffix |-> ""],
  [name |-> "KOSPI",  ticker |-> "^KS11", suffix |-> ""] >>

Tickers == {metrics[i].ticker : i \in 1..Len(metrics)}
SeriesIds == {DGS10, CPIAUCSL, UNRATE}

----------------------------------------------------------------------------
(* Bounds of the model *)

MaxRows == 3
MaxShort == 2
MaxExtra == 2

----------------------------------------------------------------------------
(* Floats *)

NaN == <<>>
F(x) == <<x>>
IsNaN(a) == a = NaN

Sub(a, b) == IF IsNaN(a) \/ IsNaN(b) THEN NaN ELSE F(a[1] - b[1])

\* (a / b) * 100 in hundredths of a percent; x / 0.0 and NaN give NaN here
\* (the callers guard b != 0, and inf is not distinguished from NaN).
PctOf(a, b) ==
  IF IsNaN(a) \/ IsNaN(b) THEN NaN
  ELSE IF b[1] = 0 THEN NaN
  ELSE F((a[1] * 10000) \div b[1])

\* current / 16 in hundredths
DailyVol(current) ==
  IF IsNaN(current) THEN NaN ELSE F((current[1] * 100) \div VixDivisor)

----------------------------------------------------------------------------
(* Provider payloads.  A payload either raises or carries rows.            *)
(* A CSV cell of the macro provider is a number or the '.' token.          *)

Dot == [missing |-> TRUE, num |-> 0]
Cell(x) == [missing |-> FALSE, num |-> x]

Raises == [raises |-> TRUE, rows |-> <<>>]
Payload(rows) == [raises |-> FALSE, rows |-> rows]

SeqsUpTo(S, n) == UNION {[1..k -> S] : k \in 0..n}

\* rows of the macro CSV: dates start, start+1, ... (strictly increasing)
CsvRows(cells, start) ==
  [i \in 1..Len(cells) |-> [d |-> start + i - 1, c |-> cells[i]]]

----------------------------------------------------------------------------
(* get_macro_data, src/main.py:100-110 *)

NoneDf == [none |-> TRUE, rows |-> <<>>]
Df(rows) == [none |-> FALSE, rows |-> rows]

\* pd.read_csv(..., na_values='.'): the '.' token becomes NaN
ReadCsv(rows) ==
  [i \in 1..Len(rows) |->
     [d |-> rows[i].d,
      v |-> IF rows[i].c.missing THEN NaN ELSE F(rows[i].c.num)]]

DropNaRows(rows) == LET Valid(r) == ~IsNaN(r.v) IN SelectSeq(rows, Valid)
AfterCutoff(rows) == LET Recent(r) == r.d > Cutoff IN SelectSeq(rows, Recent)

get_macro_data(series_id, payload) ==
  IF payload.raises THEN NoneDf
  ELSE Df(AfterCutoff(DropNaRows(ReadCsv(payload.rows))))

Column(df) == [i \in 1..Len(df.rows) |-> df.rows[i].v]

----------------------------------------------------------------------------
(* st.cache_data(ttl=...), src/main.py:66 and :99.  One entry per key; an  *)
(* entry is served while now - at < ttl; otherwise the body runs and its   *)
(* return value, whatever it is, replaces the entry.  A raised exception   *)
(* is not stored.  "fetched" is a history field: the time at which the     *)
(* data of the entry left the provider.                                    *)

NoData == [none |-> TRUE, current |-> NaN, delta |-> NaN, history |-> <<>>]
Snapshot(c, d, h) == [none |-> FALSE, current |-> c, delta |-> d, history |-> h]

NoEntryM == [present |-> FALSE, at |-> 0, val |-> NoneDf, fetched |-> 0]
NoEntryD == [present |-> FALSE, at |-> 0, val |-> NoData, fetched |-> 0]
Entry(t, v, f) == [present |-> TRUE, at |-> t, val |-> v, fetched |-> f]

\* the ttl is ignored: an entry, once stored, is served for ever
FreshForever(e, t, ttl) == e.present

Fresh(e, t, ttl) == e.present /\ t - e.at < ttl

Yf(ticker) == [provider |-> "yf.download", id |-> ticker]
Fred(series_id) == [provider |-> "fred", id |-> series_id]

CachedMacro(mc, series_id, payload, t) ==
  LET e == mc[series_id] IN
  IF Fresh(e, t, MacroTtl)
  THEN [ret |-> e.val, mcache |-> mc, calls |-> <<>>, hit |-> TRUE,
        fetched |-> e.fetched]
  ELSE LET r == get_macro_data(series_id, payload) IN
       [ret |-> r, mcache |-> [mc EXCEPT ![series_id] = Entry(t, r, t)],
        calls |-> <<Fred(series_id)>>, hit |-> FALSE, fetched |-> t]

----------------------------------------------------------------------------
(* get_daily_data, src/main.py:67-96 *)

DropNa(series) == LET Valid(x) == ~IsNaN(x) IN SelectSeq(series, Valid)

Returned(r) == [raised |-> "", ret |-> r]
Thrown(e) == [raised |-> e, ret |-> NoData]

\* lines 72-82: no try block; iloc[-2] on a one-point series raises
TnxBranch(df) ==
  IF df.none \/ df.rows = <<>> THEN Returned(NoData)
  ELSE LET series == DropNa(Column(df))
           n == Len(series)
       IN IF n < 2 THEN Thrown("IndexError")
          ELSE Returned(Snapshot(series[n], Sub(series[n], series[n - 1]),
                                 series))

\* lines 85-96: every exception is caught and becomes the None triple
YfBranch(payload) ==
  IF payload.raises THEN Returned(NoData)
  ELSE LET close == payload.rows
           n == Len(close)
       IN IF n = 0 THEN Returned(NoData)
          ELSE IF n < 2 THEN Returned(NoData)
          ELSE Returned(Snapshot(close[n], Sub(close[n], close[n - 1]),
                                 close))

\* a second level of fallback: when the macro fetch gives nothing for
\* "^TNX", the daily-quote provider is asked as well
get_daily_data_cascade(ticker, mc, t, yfPayload, fredPayload) ==
  LET m == CachedMacro(mc, DGS10, fredPayload, t)
      b == TnxBranch(m.ret)
      y == YfBranch(yfPayload)
  IN
  IF ticker = TNX /\ b.raised = "" /\ b.ret.none
  THEN [raised |-> y.raised, ret |-> y.ret, mcache |-> m.mcache,
        calls |-> m.calls \o <<Yf(ticker)>>, fetched |-> t,
        obtained |-> yfPayload.rows]
  ELSE IF ticker = TNX
  THEN [raised |-> b.raised, ret |-> b.ret, mcache |-> m.mcache,
        calls |-> m.calls, fetched |-> m.fetched,
        obtained |-> Column(m.ret)]
  ELSE [raised |-> y.raised, ret |-> y.ret, mcache |-> mc,
        calls |-> <<Yf(ticker)>>, fetched |-> t,
        obtained |-> yfPayload.rows]

get_daily_data(ticker, mc, t, yfPayload, fredPayload) ==
  IF ticker = TNX
  THEN LET m == CachedMacro(mc, DGS10, fredPayload, t)
           b == TnxBranch(m.ret)
       IN [raised |-> b.raised, ret |-> b.ret, mcache |-> m.mcache,
           calls |-> m.calls, fetched |-> m.fetched,
           obtained |-> Column(m.ret)]
  ELSE LET b == YfBranch(yfPayload)
       IN [raised |-> b.raised, ret |-> b.ret, mcache |-> mc,
           calls |-> <<Yf(ticker)>>, fetched |-> t,
           obtained |-> yfPayload.rows]

CachedDaily(dc, mc, ticker, yfPayload, fredPayload, t) ==
  LET e == dc[ticker] IN
  IF Fresh(e, t, DailyTtl)
  THEN [raised |-> "", ret |-> e.val, dcache |-> dc, mcache |-> mc,
        calls |-> <<>>, hit |-> TRUE, fetched |-> e.fetched,
        obtained |-> <<>>]
  ELSE LET b == get_daily_data(ticker, mc, t, yfPayload, fredPayload) IN
       [raised |-> b.raised, ret |-> b.ret,
        dcache |-> IF b.raised = ""
                   THEN [dc EXCEPT ![ticker] = Entry(t, b.ret, b.fetched)]
                   ELSE dc,
        mcache |-> b.mcache, calls |-> b.calls, hit |-> FALSE,
        fetched |-> b.fetched, obtained |-> b.obtained]

----------------------------------------------------------------------------
(* State after process start *)

NoOp == [fn |-> "none", key |-> "", t |-> 0, hit |-> FALSE,
         prior |-> NoEntryD, priorM |-> NoEntryM, calls |-> <<>>,
         raised |-> "", ret |-> NoData, df |-> NoneDf, fetched |-> 0,
         obtained |-> <<>>]

ColdStart ==
  /\ now = 0
  /\ dailyCache = [k \in Tickers |-> NoEntryD]
  /\ macroCache = [k \in SeriesIds |-> NoEntryM]
  /\ op = NoOp
  /\ idx = 1
  /\ data_summary = <<>>
  /\ warnings = <<>>
  /\ charts = <<>>
  /\ raised = ""
  /\ final_prompt = <<>>

\* the record of a call of get_daily_data(ticker) at time now
DailyOp(ticker, c) ==
  [fn |-> "get_daily_data", key |-> ticker, t |-> now, hit |-> c.hit,
   prior |-> dailyCache[ticker], priorM |-> macroCache[DGS10],
   calls |-> c.calls, raised |-> c.raised, ret |-> c.ret,
   df |-> c.mcache[DGS10].val, fetched |-> c.fetched,
   obtained |-> c.obtained]

MacroOp(series_id, c) ==
  [fn |-> "get_macro_data", key |-> series_id, t |-> now, hit |-> c.hit,
   prior |-> NoEntryD, priorM |-> macroCache[series_id],
   calls |-> c.calls, raised |-> "", ret |-> NoData,
   df |-> c.ret, fetched |-> c.fetched, obtained |-> Column(c.ret)]

----------------------------------------------------------------------------
(* Calls over time: the clock moves between calls of the cached functions  *)

\* the instants at which something happens: a few steps of three quarters
\* of the daily ttl, right after process start and right after the macro
\* ttl has elapsed
ClockStep == (3 * DailyTtl) \div 4
Instants == {a * ClockStep + b * MacroTtl : a \in 0..MaxShort, b \in 0..1}

TimedTickers == {TNX, "KRW=X"}
TimedSeries == {DGS10}

TimedCloses == {<<>>, <<F(100)>>, <<F(100), F(105)>>}
TimedYf == {Raises} \cup {Payload(r) : r \in TimedCloses}
TimedCells == {<<>>, <<Cell(100)>>, <<Cell(100), Cell(105)>>}
TimedFred == {Raises} \cup {Payload(CsvRows(c, Cutoff + 1)) : c \in TimedCells}

Tick ==
  /\ \E t \in Instants : t > now /\ now' = t
  /\ UNCHANGED <<dailyCache, macroCache, op, passVars>>

\* the payload of the provider the ticker is routed to, were it asked
TimedInputs(ticker) ==
  IF ticker = TNX THEN {<<Raises, f>> : f \in TimedFred}
  ELSE {<<y, Raises>> : y \in TimedYf}

CallDaily ==
  \E ticker \in TimedTickers : \E in \in TimedInputs(ticker) :
    LET c == CachedDaily(dailyCache, macroCache, ticker, in[1], in[2], now) IN
    /\ dailyCache' = c.dcache
    /\ macroCache' = c.mcache
    /\ op' = DailyOp(ticker, c)
    /\ UNCHANGED <<now, passVars>>

CallMacro ==
  \E series_id \in TimedSeries, f \in TimedFred :
    LET c == CachedMacro(macroCache, series_id, f, now) IN
    /\ macroCache' = c.mcache
    /\ op' = MacroOp(series_id, c)
    /\ UNCHANGED <<now, dailyCache, passVars>>

InitTimed == ColdStart /\ pc = "off"
NextTimed == Tick \/ CallDaily \/ CallMacro
SpecTimed == InitTimed /\ [][NextTimed]_vars

----------------------------------------------------------------------------
(* Single calls on every shape of provider payload (clock at rest)         *)

Floats == {NaN, F(100), F(105)}
Cells == {Dot, Cell(100), Cell(105)}
AnyYf == {Raises} \cup {Payload(r) : r \in SeqsUpTo(Floats, MaxRows)}
AnyFred == {Raises} \cup
           {Payload(CsvRows(c, start)) :
              c \in SeqsUpTo(Cells, MaxRows), start \in {Cutoff, Cutoff + 1}}

AnyInputs(ticker) ==
  IF ticker = TNX THEN {<<Raises, f>> : f \in AnyFred}
  ELSE {<<y, Raises>> : y \in AnyYf}

FetchDaily ==
  \E ticker \in TimedTickers : \E in \in AnyInputs(ticker) :
    LET c == CachedDaily(dailyCache, macroCache, ticker, in[1], in[2], now) IN
    /\ dailyCache' = c.dcache
    /\ macroCache' = c.mcache
    /\ op' = DailyOp(ticker, c)
    /\ UNCHANGED <<now, passVars>>

FetchMacro ==
  \E series_id \in TimedSeries, f \in AnyFred :
    LET c == CachedMacro(macroCache, series_id, f, now) IN
    /\ macroCache' = c.mcache
    /\ op' = MacroOp(series_id, c)
    /\ UNCHANGED <<now, dailyCache, passVars>>

InitCall == ColdStart /\ pc = "off"
NextCall == FetchDaily \/ FetchMacro
SpecCall == InitCall /\ [][NextCall]_vars

----------------------------------------------------------------------------
(* The aggregation pass: the script body, src/main.py:207-333.             *)
(* pc is the section of the script ("metrics", "cpi", "unrate", "prompt",  *)
(* "done"), idx the index of the next entry of metrics_list; an uncaught     *)
(* exception stops the script (pc = "aborted").                            *)

\* one report line: the format string used and the values interpolated
Line(name, fmt, args) == [name |-> name, fmt |-> fmt, args |-> args]

\* history.tail(90)
TailOf(series, k) ==
  IF Len(series) <= k THEN series
  ELSE SubSeq(series, Len(series) - k + 1, Len(series))

\* y_vals.min() / y_vals.max() of numpy raise ValueError on an empty array
\* (create_sparkline_chart lines 114-116, create_macro_chart lines 136-140)
ChartRaises(series) == series = <<>>

create_sparkline_chart(data) == [kind |-> "sparkline", y_vals |-> data]
create_macro_chart(df, col_name) == [kind |-> col_name, y_vals |-> df]

\* lines 221-224
PctChange(current, delta) ==
  LET prev_price == Sub(current, delta) IN
  IF prev_price = F(0) THEN F(0) ELSE PctOf(delta, prev_price)

\* the percentage is left out of the ordinary line
MetricLineNoPct(m, current, delta) ==
  LET pct_change == PctChange(current, delta) IN
  IF m.name = VixName
  THEN Line(m.name, "vix",
            [current |-> current, pct_change |-> pct_change,
             daily_vol |-> DailyVol(current)])
  ELSE Line(m.name, "daily",
            [current |-> current, suffix |-> m.suffix, delta |-> delta])

\* lines 230-236
MetricLine(m, current, delta) ==
  LET pct_change == PctChange(current, delta) IN
  IF m.name = VixName
  THEN Line(m.name, "vix",
            [current |-> current, pct_change |-> pct_change,
             daily_vol |-> DailyVol(current)])
  ELSE Line(m.name, "daily",
            [current |-> current, suffix |-> m.suffix, delta |-> delta,
             pct_change |-> pct_change])

\* a placeholder line is written for an instrument without data
SummaryAfterPlaceholder(summary, m, ret) ==
  IF ~ret.none
  THEN Append(summary, MetricLine(m, ret.current, ret.delta))
  ELSE Append(summary, Line(m.name, "daily",
                            [current |-> NaN, suffix |-> m.suffix,
                             delta |-> NaN, pct_change |-> NaN]))

\* lines 219-252: data_summary after one entry of metrics
SummaryAfter(summary, m, ret) ==
  IF ~ret.none
  THEN Append(summary, MetricLine(m, ret.current, ret.delta))
  ELSE summary

\* cpi_data.pct_change(periods=12) * 100, line 271: same length as the
\* input, NaN where the lagged row does not exist
PctChangePeriods(col, periods) ==
  [t \in 1..Len(col) |->
     IF t <= periods THEN NaN
     ELSE PctOf(Sub(col[t], col[t - periods]), col[t - periods])]

PassCloses == {<<>>, <<F(100)>>, <<F(100), F(105)>>, <<F(105), NaN>>}
PassYf == {Raises} \cup {Payload(r) : r \in PassCloses}

Ramp(n, base, step) == [i \in 1..n |-> Cell(base + step * (i - 1))]
MonthLens == {0, 1, YoYLag, YoYLag + 1, YoYLag + MaxExtra}
PassCpi == {Raises} \cup
           {Payload(CsvRows(Ramp(n, 400, 1), Cutoff + 1)) : n \in MonthLens}

PassInputs(ticker) ==
  IF ticker = TNX THEN {<<Raises, f>> : f \in TimedFred}
  ELSE {<<y, Raises>> : y \in PassYf}

MetricStep ==
  /\ pc = "metrics"
  /\ LET m == metrics[idx] IN
     \E in \in PassInputs(m.ticker) :
       LET c == CachedDaily(dailyCache, macroCache, m.ticker, in[1], in[2],
                            now)
           history == c.ret.history
       IN
       /\ dailyCache' = c.dcache
       /\ macroCache' = c.mcache
       /\ op' = DailyOp(m.ticker, c)
       /\ IF c.raised # ""
          THEN /\ raised' = c.raised
               /\ pc' = "aborted"
               /\ UNCHANGED <<idx, data_summary, warnings, charts>>
          ELSE /\ data_summary' = SummaryAfter(data_summary, m, c.ret)
               /\ charts' =
                    IF ~c.ret.none
                    THEN Append(charts,
                           create_sparkline_chart(TailOf(history, SparkTail)))
                    ELSE charts
               /\ warnings' =
                    IF ~c.ret.none THEN warnings ELSE Append(warnings, m.name)
               /\ pc' = IF idx = Len(metrics) THEN "cpi" ELSE "metrics"
               /\ idx' = idx + 1
               /\ UNCHANGED raised
  /\ UNCHANGED <<now, final_prompt>>

\* lines 267-281
CpiStep ==
  /\ pc = "cpi"
  /\ \E f \in PassCpi :
       LET c == CachedMacro(macroCache, CPIAUCSL, f, now)
           cpi_data == c.ret
           cpi_yoy == PctChangePeriods(Column(cpi_data), YoYLag)
       IN
       /\ macroCache' = c.mcache
       /\ op' = MacroOp(CPIAUCSL, c)
       /\ IF cpi_data.none
          THEN /\ warnings' = Append(warnings, "CPI")
               /\ pc' = "unrate"
               /\ UNCHANGED <<data_summary, charts, raised>>
          ELSE IF ChartRaises(cpi_yoy)
          THEN /\ raised' = "ValueError"
               /\ pc' = "aborted"
               /\ UNCHANGED <<data_summary, warnings, charts>>
          ELSE /\ charts' = Append(charts,
                                   create_macro_chart(cpi_yoy, CPIAUCSL))
               /\ data_summary' =
                    Append(data_summary,
                           Line("CPI", "cpi",
                                [last_cpi |-> cpi_yoy[Len(cpi_yoy)]]))
               /\ pc' = "unrate"
               /\ UNCHANGED <<warnings, raised>>
  /\ UNCHANGED <<now, dailyCache, idx, final_prompt>>

\* lines 288-299
UnrateStep ==
  /\ pc = "unrate"
  /\ \E f \in TimedFred :
       LET c == CachedMacro(macroCache, UNRATE, f, now)
           unrate_data == c.ret
           col == Column(unrate_data)
       IN
       /\ macroCache' = c.mcache
       /\ op' = MacroOp(UNRATE, c)
       /\ IF unrate_data.none
          THEN /\ warnings' = Append(warnings, "UNRATE")
               /\ pc' = "prompt"
               /\ UNCHANGED <<data_summary, charts, raised>>
          ELSE IF ChartRaises(col)
          THEN /\ raised' = "ValueError"
               /\ pc' = "aborted"
               /\ UNCHANGED <<data_summary, warnings, charts>>
          ELSE /\ charts' = Append(charts, create_macro_chart(col, UNRATE))
               /\ data_summary' =
                    Append(data_summary,
                           Line("UNRATE", "unrate",
                                [last_unrate |-> col[Len(col)]]))
               /\ pc' = "prompt"
               /\ UNCHANGED <<warnings, raised>>
  /\ UNCHANGED <<now, dailyCache, idx, final_prompt>>

\* lines 309-333: the report is embedded verbatim in the template
PromptStep ==
  /\ pc = "prompt"
  /\ final_prompt' = <<data_summary>>
  /\ pc' = "done"
  /\ UNCHANGED <<now, dailyCache, macroCache, op, idx, data_summary, warnings,
                 charts, raised>>

InitPass == ColdStart /\ pc = "metrics"
NextPass == MetricStep \/ CpiStep \/ UnrateStep \/ PromptStep
SpecPass == InitPass /\ [][NextPass]_vars

----------------------------------------------------------------------------
(* Properties *)

IsDailyCall == op.fn = "get_daily_data"
IsMacroCall == op.fn = "get_macro_data"

IsPrefix(a, b) == Len(a) <= Len(b) /\ SubSeq(b, 1, Len(a)) = a

\* the entry the key of the last call held when the call was made
PriorPresent == IF IsDailyCall THEN op.prior.present ELSE op.priorM.present
PriorAge == IF IsDailyCall THEN op.t - op.prior.at ELSE op.t - op.priorM.at
TtlOfCall == IF IsDailyCall THEN DailyTtl ELSE MacroTtl

\* C1: for every cache key, a call made less than ttl after the entry was
\* stored invokes no provider and returns the stored result, and a call
\* made once the ttl has elapsed invokes the provider again.
C1_TtlDecidesProviderCall ==
  (op.fn # "none" /\ PriorPresent) =>
     /\ (PriorAge < TtlOfCall) =>
          /\ op.calls = <<>>
          /\ IsDailyCall => (op.raised = "" /\ op.ret = op.prior.val)
          /\ IsMacroCall => (op.df = op.priorM.val)
     /\ (PriorAge >= TtlOfCall) => (op.calls # <<>>)

\* the same statement for every key but get_daily_data("^TNX")
C1_HoldsForDirectKeys ==
  (op.fn # "none" /\ PriorPresent /\ ~(IsDailyCall /\ op.key = TNX)) =>
     /\ (PriorAge < TtlOfCall) => (op.calls = <<>>)
     /\ (PriorAge >= TtlOfCall) => (op.calls # <<>>)

MacroFailed(df) == df.none \/ df.rows = <<>>

\* C2: when a key holds a successfully fetched series and the refresh after
\* ttl expiry fails, the call returns the no-data outcome and the store
\* still holds the previous series for that key.
C2_FailedRefreshKeepsEntry ==
  /\ (IsDailyCall /\ op.prior.present /\ ~op.prior.val.none
        /\ PriorAge >= DailyTtl /\ op.raised = "" /\ op.ret.none) =>
       dailyCache[op.key].val = op.prior.val
  /\ (IsMacroCall /\ op.priorM.present /\ ~MacroFailed(op.priorM.val)
        /\ PriorAge >= MacroTtl /\ MacroFailed(op.df)) =>
       macroCache[op.key].val = op.priorM.val

\* C3: get_daily_data("^TNX") never calls yf.download and takes its result
\* from get_macro_data("DGS10") only; every other ticker calls yf.download
\* only; at most one source is asked per call, and a failed or empty macro
\* fetch gives the None triple without a further source.
C3_Routing ==
  IsDailyCall =>
     /\ Len(op.calls) <= 1
     /\ \A k \in DOMAIN op.calls :
          op.calls[k] = IF op.key = TNX THEN Fred(DGS10) ELSE Yf(op.key)
     /\ (op.key # TNX /\ ~op.hit) => (op.calls = <<Yf(op.key)>>)
     /\ (op.key = TNX /\ ~op.hit /\ MacroFailed(op.df)) =>
          (op.raised = "" /\ op.ret = NoData)
     /\ (op.key = TNX /\ ~op.hit /\ op.raised = "" /\ ~op.ret.none) =>
          (op.ret.history = Column(op.df))

C3_Witness ==
  /\ IsDailyCall /\ op.key = TNX /\ ~op.hit
  /\ op.calls = <<Fred(DGS10)>>
  /\ op.df.none
  /\ op.ret = NoData

\* C4: whatever the providers deliver, the aggregation pass never stops on
\* a raw exception.
C4_PassNeverAborts == pc # "aborted" /\ raised = ""

\* the instruments in configured order: metrics, then CPI, then UNRATE
NameOf(j) ==
  IF j <= Len(metrics) THEN metrics[j].name
  ELSE IF j = Len(metrics) + 1 THEN "CPI" ELSE "UNRATE"

\* cold start: the store holds, for each instrument processed in this pass,
\* what its fetch returned
YieldedData(j) ==
  IF j <= Len(metrics) THEN ~dailyCache[metrics[j].ticker].val.none
  ELSE IF j = Len(metrics) + 1 THEN ~macroCache[CPIAUCSL].val.none
  ELSE ~macroCache[UNRATE].val.none

CpiProcessed ==
  \/ pc \in {"unrate", "prompt", "done"}
  \/ pc = "aborted" /\ macroCache[UNRATE].present
UnrateProcessed == pc \in {"prompt", "done"}

NumProcessed ==
  (idx - 1) + (IF CpiProcessed THEN 1 ELSE 0)
            + (IF UnrateProcessed THEN 1 ELSE 0)

Processed == [j \in 1..NumProcessed |-> j]
NamesOf(js) == [k \in DOMAIN js |-> NameOf(js[k])]
LineNames == [k \in DOMAIN data_summary |-> data_summary[k].name]

ReportMatchesProcessed ==
  LET NoYield(j) == ~YieldedData(j) IN
  /\ LineNames = NamesOf(SelectSeq(Processed, YieldedData))
  /\ warnings = NamesOf(SelectSeq(Processed, NoYield))

\* C5: data_summary starts empty, only grows by appending, and at every
\* point holds exactly one line per processed instrument with data, in
\* configured order, and none for an instrument without data, which gets
\* a load-failure warning instead.
C5_ReportAppendOnly ==
  /\ data_summary = <<>>
  /\ []ReportMatchesProcessed
  /\ [][IsPrefix(data_summary, data_summary')]_vars

C5_Witness ==
  /\ pc = "done"
  /\ Len(data_summary) >= 2
  /\ Len(warnings) >= 2
  /\ final_prompt = <<data_summary>>

\* C6: a series with fewer than 2 valid points makes get_daily_data return
\* (None, None, None), on the daily-quote path and on the "^TNX" path.
C6_TooFewPointsIsNoData ==
  (IsDailyCall /\ ~op.hit /\ Len(DropNa(op.obtained)) < 2) =>
     (op.raised = "" /\ op.ret = NoData)

\* C7: a snapshot returned by get_daily_data has as current and prior the
\* two most recent valid points of the fetched series.
C7_SnapshotFromValidPoints ==
  (IsDailyCall /\ ~op.hit /\ op.raised = "" /\ ~op.ret.none) =>
     LET valid == DropNa(op.obtained)
         n == Len(valid)
     IN /\ n >= 2
        /\ op.ret.current = valid[n]
        /\ op.ret.delta = F(valid[n][1] - valid[n - 1][1])

CpiCharts == {k \in DOMAIN charts : charts[k].kind = CPIAUCSL}
CpiLines == {k \in DOMAIN data_summary : data_summary[k].fmt = "cpi"}

\* C8: the year-over-year series handed to the chart has the first 12
\* points dropped, each point is (value[t] / value[t-12] - 1) * 100, and
\* the reported latest value is a defined point.
C8_YoYOnlyDefinedPoints ==
  LET col == Column(macroCache[CPIAUCSL].val) IN
  /\ \A k \in CpiCharts :
       LET y == charts[k].y_vals IN
       /\ Len(y) = Len(col) - YoYLag
       /\ \A t \in DOMAIN y :
            /\ ~IsNaN(y[t])
            /\ y[t] = F(((col[t + YoYLag][1] - col[t][1]) * 10000)
                           \div col[t][1])
  /\ \A k \in CpiLines : ~IsNaN(data_summary[k].args.last_cpi)

DailyLines == {k \in DOMAIN data_summary :
                 data_summary[k].fmt \in {"daily", "vix"}}
Has(line, field) == field \in DOMAIN line.args

\* C9: every line of a daily instrument with data carries the absolute and
\* the percentage delta, the volatility index included, whose line also
\* carries current / 16.
C9_EveryLineHasBothDeltas ==
  \A k \in DailyLines :
     LET line == data_summary[k] IN
     /\ Has(line, "delta") /\ Has(line, "pct_change")
     /\ (line.name = VixName) => Has(line, "daily_vol")

TickerOf(name) ==
  metrics[CHOOSE j \in 1..Len(metrics) : metrics[j].name = name].ticker

ExpectedPct(current, delta) ==
  IF IsNaN(current) \/ IsNaN(delta) THEN NaN
  ELSE IF current[1] - delta[1] = 0 THEN F(0)
  ELSE F((delta[1] * 10000) \div (current[1] - delta[1]))

\* C9 (amended): the line of each of the 7 instruments other than the
\* volatility index carries the absolute delta and the percentage delta of
\* the fetched snapshot; the line of the volatility index carries the
\* percentage delta and the implied daily move current / 16, and no
\* absolute delta.
C9_DeltasPerLineFormat ==
  \A k \in DailyLines :
     LET line == data_summary[k]
         snap == dailyCache[TickerOf(line.name)].val
     IN
     /\ Has(line, "pct_change")
     /\ line.args.pct_change = ExpectedPct(snap.current, snap.delta)
     /\ (line.name # VixName) =>
          /\ Has(line, "delta")
          /\ line.args.delta = snap.delta
          /\ ~Has(line, "daily_vol")
     /\ (line.name = VixName) =>
          /\ ~Has(line, "delta")
          /\ Has(line, "daily_vol")
          /\ IsNaN(line.args.daily_vol) = IsNaN(snap.current)
          /\ (~IsNaN(snap.current)) =>
               /\ line.args.daily_vol[1] * VixDivisor <= snap.current[1] * 100
               /\ snap.current[1] * 100 <
                    (line.args.daily_vol[1] + 1) * VixDivisor

C9_Witness ==
  /\ \E k \in DailyLines :
       /\ data_summary[k].name = VixName
       /\ data_summary[k].args.daily_vol = F(656)
       /\ data_summary[k].args.pct_change = F(500)
  /\ \E k \in DailyLines :
       /\ data_summary[k].name # VixName
       /\ data_summary[k].args.delta = F(5)
       /\ data_summary[k].args.pct_change = F(500)

ServedTnx ==
  IsDailyCall /\ op.key = TNX /\ op.raised = "" /\ ~op.ret.none

\* C10: the series get_daily_data("^TNX") serves left the provider at most
\* 3600 + 86400 seconds before the call; the 3600 s of the daily ttl alone
\* do not bound its age.
C10_TnxAgeBound == ServedTnx => (op.t - op.fetched <= DailyTtl + MacroTtl)

C10_Witness == ServedTnx /\ op.hit /\ op.t - op.fetched > DailyTtl

====
